---- MODULE Spec2Model ----
(***************************************************************************)
(* Model of streamlit_app.py: the archive renamer process_and_rename_zip   *)
(* and the Streamlit script around it (name sources, Start Renaming).      *)
(*                                                                         *)
(* A Python str is a sequence of one-character strings.  A Python object   *)
(* that may or may not be a str (a cell of a data file) is a record        *)
(* [type, val].  None and absent uploads are records with a flag.          *)
(***************************************************************************)
EXTENDS Integers, Sequences, FiniteSets, TLC

VARIABLES
  uploaded_zip,        \* st.file_uploader value: the uploaded archive, or absent
  zipPos,              \* stream position of the uploaded file object
  name_input_method,   \* st.radio value
  new_names_input,     \* st.text_area value
  uploaded_data_file,  \* st.file_uploader value for the Excel/CSV file
  new_names_list,      \* the script's new_names_list after the name-source section
  stopped,             \* the script run ended in st.stop()
  button,              \* this script run was triggered by "Start Renaming"
  invoked,             \* this script run called process_and_rename_zip
  renamed_zip,         \* value returned by process_and_rename_zip (None if not called)
  output_buffer,       \* entries written to output_zip during the call
  original_files,      \* the local original_files when the call ended
  reads,               \* indices of the input entries opened by input_zip.open
  messages,            \* st.error / st.success / st.warning issued by this run
  download,            \* st.download_button was rendered in this run
  calls                \* calls of process_and_rename_zip since the widgets last changed

vars == <<uploaded_zip, zipPos, name_input_method, new_names_input,
          uploaded_data_file, new_names_list, stopped, button, invoked,
          renamed_zip, output_buffer, original_files, reads, messages,
          download, calls>>

(***************************************************************************)
(* Bounds of the model.                                                    *)
(***************************************************************************)
MaxEntries == 3      \* entries of an archive given to the renamer
MaxNames == 3        \* names given to the renamer
MaxTextLen == 5      \* characters of a pasted text
MaxUploadEntries == 2  \* entries of an archive uploaded in the script
MaxPasteLen == 2     \* characters of a text pasted in the script
MaxRows == 2         \* rows of an uploaded data file
MaxCalls == 2        \* presses of Start Renaming in a row that reach the renamer

(***************************************************************************)
(* Python str helpers.                                                     *)
(***************************************************************************)
Whitespace == {" ", "\t", "\n", "\r", "\f"}

RECURSIVE lstrip(_)
lstrip(s) ==
  IF s # <<>> /\ Head(s) \in Whitespace THEN lstrip(Tail(s)) ELSE s

RECURSIVE rstrip(_)
rstrip(s) ==
  IF s # <<>> /\ s[Len(s)] \in Whitespace
  THEN rstrip(SubSeq(s, 1, Len(s) - 1))
  ELSE s

\* str.strip()
strip(s) == rstrip(lstrip(s))

\* str.endswith(c) for a one-character c
endswith(s, c) == s # <<>> /\ s[Len(s)] = c

\* str.rfind(c) for a one-character c, 1-based; 0 when c does not occur
rfind(s, c) ==
  IF \E k \in 1..Len(s) : s[k] = c
  THEN CHOOSE k \in 1..Len(s) : s[k] = c /\ \A j \in (k+1)..Len(s) : s[j] # c
  ELSE 0

\* str.split(sep) for a one-character sep
RECURSIVE split(_, _)
split(s, sep) ==
  IF \E k \in 1..Len(s) : s[k] = sep
  THEN LET k == CHOOSE i \in 1..Len(s) : s[i] = sep /\ \A j \in 1..(i-1) : s[j] # sep
       IN  <<SubSeq(s, 1, k - 1)>> \o split(SubSeq(s, k + 1, Len(s)), sep)
  ELSE <<s>>

\* splitext cutting at the last dot wherever it is
splitext_lastdot(p) ==
  IF rfind(p, ".") > 0
  THEN <<SubSeq(p, 1, rfind(p, ".") - 1), SubSeq(p, rfind(p, "."), Len(p))>>
  ELSE <<p, <<>>>>

\* os.path.splitext (posixpath): the extension starts at the last dot of the
\* last path component, unless only dots precede it in that component
splitext(p) ==
  LET sepIndex == rfind(p, "/")
      dotIndex == rfind(p, ".")
  IN  IF dotIndex > sepIndex
         /\ \E filenameIndex \in (sepIndex + 1)..(dotIndex - 1) : p[filenameIndex] # "."
      THEN <<SubSeq(p, 1, dotIndex - 1), SubSeq(p, dotIndex, Len(p))>>
      ELSE <<p, <<>>>>

Digits == <<"0", "1", "2", "3", "4", "5", "6", "7", "8", "9">>
IsDigit(c) == \E d \in 1..10 : Digits[d] = c
DigitVal(c) == (CHOOSE d \in 1..10 : Digits[d] = c) - 1

RECURSIVE DigitsValue(_, _)
DigitsValue(s, acc) ==
  IF s = <<>> THEN acc
  ELSE IF Head(s) = "_" THEN DigitsValue(Tail(s), acc)
  ELSE DigitsValue(Tail(s), 10 * acc + DigitVal(Head(s)))

\* int(s) for a str: surrounding whitespace, an optional sign, decimal digits
\* with single underscores between them; [ok |-> FALSE] stands for ValueError
int(s) ==
  LET t == strip(s)
      signed == t # <<>> /\ Head(t) \in {"+", "-"}
      body == IF signed THEN Tail(t) ELSE t
      wellFormed ==
        /\ body # <<>>
        /\ IsDigit(body[1]) /\ IsDigit(body[Len(body)])
        /\ \A k \in 1..Len(body) : IsDigit(body[k]) \/ body[k] = "_"
        /\ \A k \in 1..(Len(body) - 1) : ~(body[k] = "_" /\ body[k+1] = "_")
  IN  IF wellFormed
      THEN [ok |-> TRUE,
            val |-> IF signed /\ Head(t) = "-" THEN 0 - DigitsValue(body, 0)
                    ELSE DigitsValue(body, 0)]
      ELSE [ok |-> FALSE, val |-> 0]

(***************************************************************************)
(* process_and_rename_zip                                                  *)
(***************************************************************************)
None == [some |-> FALSE, entries |-> <<>>]
Some(es) == [some |-> TRUE, entries |-> es]

\* lines 33-37: int(name), or float('inf') (inf) on ValueError
NumberOrInf(n) ==
  IF n.ok THEN [inf |-> FALSE, n |-> n.val] ELSE [inf |-> TRUE, n |-> 0]

\* get_number without the splitext: the extension is part of what int() gets
get_number_whole(filename) == NumberOrInf(int(filename))

\* get_number: the sort key
get_number(filename) == NumberOrInf(int(splitext(filename)[1]))

\* key comparison a < b of Python numbers (int or float('inf'))
KeyLess(a, b) ==
  IF a.inf THEN FALSE ELSE IF b.inf THEN TRUE ELSE a.n < b.n

\* an insertion that puts x before the elements of its own key
RECURSIVE InsertByKey_ties(_, _)
InsertByKey_ties(sorted, x) ==
  IF sorted = <<>> THEN <<x>>
  ELSE IF ~KeyLess(get_number(Head(sorted)), get_number(x)) THEN <<x>> \o sorted
  ELSE <<Head(sorted)>> \o InsertByKey_ties(Tail(sorted), x)

\* list.sort(key=...) is stable: x goes after every element whose key is not
\* greater than its own
RECURSIVE InsertByKey(_, _)
InsertByKey(sorted, x) ==
  IF sorted = <<>> THEN <<x>>
  ELSE IF KeyLess(get_number(x), get_number(Head(sorted))) THEN <<x>> \o sorted
  ELSE <<Head(sorted)>> \o InsertByKey(Tail(sorted), x)

RECURSIVE SortFrom(_, _)
SortFrom(done, rest) ==
  IF rest = <<>> THEN done
  ELSE SortFrom(InsertByKey(done, Head(rest)), Tail(rest))

\* original_files.sort(key=get_number)
sort(files) == SortFrom(<<>>, files)

\* input_zip.namelist()
namelist(zip) == [k \in 1..Len(zip.entries) |-> zip.entries[k].filename]

\* the directory entries kept in the list
FilterFiles_all(files) == files

IsFile(f) == ~endswith(f, "/")

\* [f for f in original_files if not f.endswith('/')]
FilterFiles(files) == SelectSeq(files, IsFile)

\* ZipFile.getinfo(name): the entry open(name) reads. NameToInfo is filled in
\* enumeration order, so a later entry of the same name replaces an earlier one
getinfo(zip, name) ==
  CHOOSE k \in 1..Len(zip.entries) :
    /\ zip.entries[k].filename = name
    /\ \A j \in (k+1)..Len(zip.entries) : zip.entries[j].filename # name

\* the archive read from the stream's current position on: nothing is left
\* to read once the stream was read before
ZipFile_fromPos(zip, pos) == IF pos = 0 THEN zip ELSE [zip EXCEPT !.valid = FALSE]

\* zipfile.ZipFile(uploaded_zip, 'r'): the archive is located from the end of
\* the stream (seek(0, 2)), whatever the stream's position
ZipFile(zip, pos) == zip

ErrProcessing == [kind |-> "error", what |-> "processing"]
ErrMismatch(nNames, nFiles) ==
  [kind |-> "error", what |-> "mismatch", names |-> nNames, files |-> nFiles]
Success(old, new) == [kind |-> "success", old |-> old, new |-> new]
Warning == [kind |-> "warning"]

\* the except branch handing back what was written so far
Fault_partial(acc) ==
  [ret |-> Some(acc.buffer), buffer |-> acc.buffer, reads |-> acc.reads,
   messages |-> Append(acc.messages, ErrProcessing),
   original_files |-> acc.original_files]

\* lines 63-65: except Exception -> st.error, return None
Fault(acc) ==
  [ret |-> None, buffer |-> acc.buffer, reads |-> acc.reads,
   messages |-> Append(acc.messages, ErrProcessing),
   original_files |-> acc.original_files]

\* the value returned at line 62 once the loop has ended
Finished(acc) ==
  [ret |-> Some(acc.buffer), buffer |-> acc.buffer, reads |-> acc.reads,
   messages |-> acc.messages, original_files |-> acc.original_files]

\* lines 56-59 for entry number k of the archive: input_zip.open,
\* output_zip.writestr, st.success
Written(zip, acc, original_filename, new_name_with_ext, k) ==
  [acc EXCEPT
     !.reads = Append(@, k),
     !.buffer = Append(@, [filename |-> new_name_with_ext,
                           content |-> zip.entries[k].content]),
     !.messages = Append(@, Success(original_filename, new_name_with_ext))]

\* lines 48-59: the loop from index i on; an unreadable entry makes open() or
\* read() raise, a name that is no str makes .strip() raise
RECURSIVE RenameLoop(_, _, _, _)
RenameLoop(zip, names, i, acc) ==
  IF i > Len(acc.original_files) THEN Finished(acc)
  ELSE IF names[i].type # "str" THEN Fault(acc)
  ELSE IF getinfo(zip, acc.original_files[i]) = zip.bad
       THEN Fault([acc EXCEPT !.reads = Append(@, zip.bad)])
  ELSE RenameLoop(zip, names, i + 1,
         Written(zip, acc, acc.original_files[i],
                 strip(names[i].val) \o splitext(acc.original_files[i])[2],
                 getinfo(zip, acc.original_files[i])))

NoProgress ==
  [buffer |-> <<>>, reads |-> <<>>, messages |-> <<>>, original_files |-> <<>>]

\* the count check as len(original_files) > len(new_names_list)
CheckAndRename_fewer(input_zip, names, files) ==
  IF Len(files) > Len(names)
  THEN [ret |-> None, buffer |-> <<>>, reads |-> <<>>,
        messages |-> <<ErrMismatch(Len(names), Len(files))>>,
        original_files |-> files]
  ELSE RenameLoop(input_zip, names, 1, [NoProgress EXCEPT !.original_files = files])

\* lines 41-59, with original_files sorted
CheckAndRename(input_zip, names, files) ==
  IF Len(files) # Len(names)
  THEN [ret |-> None, buffer |-> <<>>, reads |-> <<>>,
        messages |-> <<ErrMismatch(Len(names), Len(files))>>,
        original_files |-> files]
  ELSE RenameLoop(input_zip, names, 1, [NoProgress EXCEPT !.original_files = files])

\* lines 17-59, with the input archive opened
Opened(input_zip, names) ==
  IF ~input_zip.valid
  THEN Fault(NoProgress)                  \* zipfile.BadZipFile
  ELSE CheckAndRename(input_zip, names, sort(FilterFiles(namelist(input_zip))))

process_and_rename_zip(zipfile, pos, names) == Opened(ZipFile(zipfile, pos), names)

(***************************************************************************)
(* The script around the renamer (lines 78-142).  Every interaction with a *)
(* widget reruns the whole script with the widgets' current values.        *)
(***************************************************************************)
Str(s) == [type |-> "str", val |-> s]
NaN == [type |-> "float", val |-> <<>>]

NoZip == [present |-> FALSE, valid |-> FALSE, entries |-> <<>>, bad |-> 0]
NoDataFile == [present |-> FALSE, status |-> "none", column |-> <<>>]

ErrColumns == [kind |-> "error", what |-> "columns"]
ErrDataFile == [kind |-> "error", what |-> "datafile"]

\* the comprehension keeping name instead of name.strip()
RECURSIVE StripNonBlank_kept(_)
StripNonBlank_kept(lines) ==
  IF lines = <<>> THEN <<>>
  ELSE IF strip(Head(lines)) # <<>>
       THEN <<Str(Head(lines))>> \o StripNonBlank_kept(Tail(lines))
       ELSE StripNonBlank_kept(Tail(lines))

\* line 124: [name.strip() for name in new_names_input.split('\n') if name.strip()]
RECURSIVE StripNonBlank(_)
StripNonBlank(lines) ==
  IF lines = <<>> THEN <<>>
  ELSE IF strip(Head(lines)) # <<>>
       THEN <<Str(strip(Head(lines)))>> \o StripNonBlank(Tail(lines))
       ELSE StripNonBlank(Tail(lines))

\* lines 123-124
ParseNames(text) ==
  IF text # <<>> THEN StripNonBlank(split(text, "\n")) ELSE <<>>

\* lines 90-124: the name-source section; stop stands for st.stop()
NameSource(method, text, datafile) ==
  IF method = "file"
  THEN IF ~datafile.present
       THEN [stop |-> FALSE, names |-> <<>>, messages |-> <<>>]
       ELSE IF datafile.status = "unreadable"
       THEN [stop |-> TRUE, names |-> <<>>, messages |-> <<ErrDataFile>>]
       ELSE IF datafile.status = "nocolumns"
       THEN [stop |-> TRUE, names |-> <<>>, messages |-> <<ErrColumns>>]
       ELSE [stop |-> FALSE, names |-> datafile.column, messages |-> <<>>]
  ELSE [stop |-> FALSE, names |-> ParseNames(text), messages |-> <<>>]

\* the condition as: if uploaded_zip
MayInvoke_zip(zip, names) == zip.present

\* line 127: if uploaded_zip and new_names_list
MayInvoke(zip, names) == zip.present /\ names # <<>>

\* line 132: if renamed_zip
OffersDownload(ret) == ret.some

\* lines 130-140: the renamer is called and its result is handled
Invoke(r, src) ==
  /\ invoked' = TRUE
  /\ zipPos' = 1
  /\ calls' = calls + 1
  /\ renamed_zip' = r.ret
  /\ output_buffer' = r.buffer
  /\ original_files' = r.original_files
  /\ reads' = r.reads
  /\ messages' = src.messages \o r.messages
  /\ download' = OffersDownload(r.ret)

\* the script run does not reach line 130
Skip(pos, msgs) ==
  /\ invoked' = FALSE
  /\ zipPos' = pos
  /\ calls' = 0
  /\ renamed_zip' = None
  /\ output_buffer' = <<>>
  /\ original_files' = <<>>
  /\ reads' = <<>>
  /\ messages' = msgs
  /\ download' = FALSE

\* lines 126-142, with src the outcome of the name-source section
Handler(zip, pos, pressed, src) ==
  /\ new_names_list' = src.names
  /\ stopped' = src.stop
  /\ button' = (pressed /\ ~src.stop)
  /\ IF ~pressed \/ src.stop THEN Skip(pos, src.messages)
     ELSE IF MayInvoke(zip, src.names)
          THEN Invoke(process_and_rename_zip(zip, pos, src.names), src)
          ELSE Skip(pos, Append(src.messages, Warning))

\* One run of the script, lines 78-142, with the widget values given;
\* pressed is the value of st.button("Start Renaming") in this run
Script(zip, pos, method, text, datafile, pressed) ==
  /\ uploaded_zip' = zip
  /\ name_input_method' = method
  /\ new_names_input' = text
  /\ uploaded_data_file' = datafile
  /\ Handler(zip, pos, pressed, NameSource(method, text, datafile))

(***************************************************************************)
(* Inputs.                                                                 *)
(***************************************************************************)
SeqsUpTo(S, n) == UNION {[1..k -> S] : k \in 0..n}

\* entry names: numeric base names (2 and 10; 2.p with the same number as 2),
\* non-numeric ones (.a with a leading dot, 5.d/x with its last dot in a
\* directory), and a directory d/
Filenames ==
  { <<"2">>, <<"1", "0">>, <<"2", ".", "p">>,
    <<".", "a">>, <<"5", ".", "d", "/", "x">>, <<"d", "/">> }

\* entry names of the archives uploaded in Spec
UploadFilenames == { <<"2">>, <<"d", "/">> }

\* a readable archive with the entry names fs; the content of an entry is its
\* position, so all contents differ; entry number bad (if not 0) cannot be read
\* (a damaged or encrypted entry)
Archive(fs, bad) ==
  [present |-> TRUE, valid |-> TRUE,
   entries |-> [k \in 1..Len(fs) |-> [filename |-> fs[k], content |-> k]],
   bad |-> bad]

\* an uploaded file that is no archive
NotAZip == [present |-> TRUE, valid |-> FALSE, entries |-> <<>>, bad |-> 0]

\* the archives of at most n entries named in F: all readable, or one entry
\* unreadable; and a file that is no archive
Archives(F, n) ==
  {Archive(x[1], x[2]) :
     x \in {y \in SeqsUpTo(F, n) \X (0..n) : y[2] <= Len(y[1])}}
  \cup {NotAZip}

\* the i-th name of a name sequence: i letters p between two spaces, so that
\* the names differ, each is changed by strip() and none is empty after it
NameAt(i) == Str(<<" ">> \o [k \in 1..i |-> "p"] \o <<" ">>)

\* the name sequences of at most n names: strings, or strings but for one
\* value that is no string (a number or NaN cell of a data file)
NameLists(n) ==
  {[i \in 1..k |-> NameAt(i)] : k \in 0..n}
  \cup {[i \in 1..k |-> IF i = j THEN NaN ELSE NameAt(i)] :
          <<k, j>> \in {x \in (1..n) \X (1..n) : x[2] <= x[1]}}

TextChars == {"a", " ", "\r", "\n"}
PasteChars == {"a", " ", "\n"}

DataFiles(n) ==
  {[present |-> TRUE, status |-> "ok", column |-> c] : c \in NameLists(n)}
  \cup {[present |-> TRUE, status |-> st, column |-> <<>>] :
          st \in {"unreadable", "nocolumns"}}

(***************************************************************************)
(* Spec: the script as the user drives it.                                 *)
(***************************************************************************)
Init ==
  /\ uploaded_zip = NoZip
  /\ zipPos = 0
  /\ name_input_method = "paste"
  /\ new_names_input = <<>>
  /\ uploaded_data_file = NoDataFile
  /\ new_names_list = <<>>
  /\ stopped = FALSE
  /\ button = FALSE
  /\ invoked = FALSE
  /\ renamed_zip = None
  /\ output_buffer = <<>>
  /\ original_files = <<>>
  /\ reads = <<>>
  /\ messages = <<>>
  /\ download = FALSE
  /\ calls = 0

\* line 79: a file is chosen in (or removed from) the archive uploader
UploadZip(z) ==
  Script(z, 0, name_input_method, new_names_input, uploaded_data_file, FALSE)

\* line 85: the radio is switched; the other method's widget is not rendered
\* any more and loses its value
ChooseMethod(m) ==
  /\ m # name_input_method
  /\ Script(uploaded_zip, zipPos, m, <<>>, NoDataFile, FALSE)

\* line 119: the text area is edited
PasteNames(t) ==
  /\ name_input_method = "paste"
  /\ Script(uploaded_zip, zipPos, name_input_method, t, uploaded_data_file, FALSE)

\* line 92: a data file is chosen in the data-file uploader
UploadDataFile(f) ==
  /\ name_input_method = "file"
  /\ Script(uploaded_zip, zipPos, name_input_method, new_names_input, f, FALSE)

\* line 126: the button is clicked; it is rendered only if the last run did
\* not stop before reaching it
StartRenaming ==
  /\ ~stopped
  /\ calls < MaxCalls
  /\ Script(uploaded_zip, zipPos, name_input_method, new_names_input,
            uploaded_data_file, TRUE)

Next ==
  \/ \E z \in Archives(UploadFilenames, MaxUploadEntries) \cup {NoZip} : UploadZip(z)
  \/ \E m \in {"paste", "file"} : ChooseMethod(m)
  \/ \E t \in SeqsUpTo(PasteChars, MaxPasteLen) : PasteNames(t)
  \/ \E f \in DataFiles(MaxRows) : UploadDataFile(f)
  \/ StartRenaming

Spec == Init /\ [][Next]_vars

(***************************************************************************)
(* SpecRename: process_and_rename_zip applied to any archive and any name  *)
(* sequence within the bounds.                                             *)
(***************************************************************************)
InitRename ==
  /\ uploaded_zip \in Archives(Filenames, MaxEntries)
  /\ new_names_list \in NameLists(MaxNames)
  /\ zipPos = 0
  /\ name_input_method = "file"
  /\ new_names_input = <<>>
  /\ uploaded_data_file = NoDataFile
  /\ stopped = FALSE
  /\ button = FALSE
  /\ invoked = FALSE
  /\ renamed_zip = None
  /\ output_buffer = <<>>
  /\ original_files = <<>>
  /\ reads = <<>>
  /\ messages = <<>>
  /\ download = FALSE
  /\ calls = 0

\* line 130 alone: renamed_zip = process_and_rename_zip(uploaded_zip, new_names_list)
Returned(r) ==
  /\ invoked' = TRUE
  /\ zipPos' = 1
  /\ calls' = calls + 1
  /\ renamed_zip' = r.ret
  /\ output_buffer' = r.buffer
  /\ original_files' = r.original_files
  /\ reads' = r.reads
  /\ messages' = r.messages

Call ==
  /\ calls < 1
  /\ Returned(process_and_rename_zip(uploaded_zip, zipPos, new_names_list))
  /\ UNCHANGED <<uploaded_zip, name_input_method, new_names_input,
                 uploaded_data_file, new_names_list, stopped, button, download>>

NextRename == Call

SpecRename == InitRename /\ [][NextRename]_vars

(***************************************************************************)
(* SpecPaste: the text area edited with any text within the bounds.        *)
(***************************************************************************)
NextPaste ==
  \E t \in SeqsUpTo(TextChars, MaxTextLen) : new_names_input = <<>> /\ PasteNames(t)

SpecPaste == Init /\ [][NextPaste]_vars

(***************************************************************************)
(* What the claims speak of, stated apart from the operators above.        *)
(***************************************************************************)
Range(f) == {f[i] : i \in DOMAIN f}

\* the positions of the non-directory entries of the uploaded archive
FileIdx ==
  {k \in 1..Len(uploaded_zip.entries) :
     uploaded_zip.entries[k].filename[Len(uploaded_zip.entries[k].filename)] # "/"}

DirIdx == (1..Len(uploaded_zip.entries)) \ FileIdx

\* the sort key the specification gives: the integer the base name parses to,
\* or none
BaseKey(f) == int(splitext(f)[1])

\* a is ordered before b by the numeric key: integers ascending, then the rest
KeyBefore(a, b) ==
  BaseKey(a).ok /\ (~BaseKey(b).ok \/ BaseKey(a).val < BaseKey(b).val)

SameKey(a, b) ==
  \/ ~BaseKey(a).ok /\ ~BaseKey(b).ok
  \/ BaseKey(a).ok /\ BaseKey(b).ok /\ BaseKey(a).val = BaseKey(b).val

\* the positions of the file entries in sorted order: by key, ties in
\* enumeration order
SortedIdx ==
  CHOOSE p \in [1..Cardinality(FileIdx) -> FileIdx] :
    \A a, b \in DOMAIN p :
      a < b => \/ KeyBefore(uploaded_zip.entries[p[a]].filename,
                            uploaded_zip.entries[p[b]].filename)
               \/ /\ SameKey(uploaded_zip.entries[p[a]].filename,
                             uploaded_zip.entries[p[b]].filename)
                  /\ p[a] < p[b]

AllStr == \A i \in DOMAIN new_names_list : new_names_list[i].type = "str"

\* s without its leading and trailing whitespace
Trimmed(s) ==
  LET keep == {i \in 1..Len(s) : s[i] \notin Whitespace}
  IN  IF keep = {} THEN <<>>
      ELSE SubSeq(s, CHOOSE i \in keep : \A j \in keep : i <= j,
                     CHOOSE i \in keep : \A j \in keep : j <= i)

\* the substring from and including the last dot, or empty without a dot
LastDotSuffix(f) ==
  IF \E i \in 1..Len(f) : f[i] = "."
  THEN SubSeq(f, CHOOSE i \in 1..Len(f) : f[i] = "." /\ \A j \in (i+1)..Len(f) : f[j] # ".",
              Len(f))
  ELSE <<>>

\* the extension as os.path.splitext gives it: from the last dot, if that dot
\* is in the last path component and a character other than a dot precedes it
\* there; empty otherwise
Extension(f) ==
  IF \E i \in 1..Len(f) :
       /\ f[i] = "."
       /\ \A j \in (i+1)..Len(f) : f[j] \notin {".", "/"}
       /\ \E j \in 1..(i-1) : f[j] # "." /\ \A m \in j..i : f[m] # "/"
  THEN LastDotSuffix(f)
  ELSE <<>>

Errors == {i \in DOMAIN messages : messages[i].kind = "error"}
Successes == {i \in DOMAIN messages : messages[i].kind = "success"}

(***************************************************************************)
(* The claims about process_and_rename_zip, under SpecRename.              *)
(***************************************************************************)
Returns == invoked /\ renamed_zip.some

CountsMatch == Len(new_names_list) = Cardinality(FileIdx)

\* C1: for a readable archive and as many (string) names as file entries, the
\* call returns an archive of that many entries, and the content of output
\* entry i is the content of the i-th file entry in sorted order -- also when
\* two entries carry the same identifier.
C1_ContentOfSortedEntry ==
  (invoked /\ uploaded_zip.valid /\ uploaded_zip.bad = 0 /\ AllStr /\ CountsMatch)
    => /\ renamed_zip.some
       /\ Len(renamed_zip.entries) = Cardinality(FileIdx)
       /\ \A i \in DOMAIN renamed_zip.entries :
            renamed_zip.entries[i].content = uploaded_zip.entries[SortedIdx[i]].content

\* C2 as claimed: output identifier i of a successful rename is trim(names[i])
\* followed by the substring of sorted identifier i from its last dot (empty
\* without a dot), for every identifier.
C2_LastDotExtension ==
  Returns =>
    \A i \in DOMAIN renamed_zip.entries :
      renamed_zip.entries[i].filename =
        Trimmed(new_names_list[i].val) \o LastDotSuffix(original_files[i])

\* C2 as amended: output identifier i of a successful rename is trim(names[i])
\* followed by the extension of sorted identifier i as os.path.splitext gives
\* it: from the last dot, when that dot lies in the last path component and is
\* preceded there by a character other than a dot; empty otherwise.
C2_SplitextExtension ==
  Returns =>
    /\ Len(renamed_zip.entries) = Len(original_files)
    /\ \A i \in DOMAIN renamed_zip.entries :
         renamed_zip.entries[i].filename =
           Trimmed(new_names_list[i].val) \o Extension(original_files[i])

\* a successful rename of 2.p, .a and 5.d/x with names that are trimmed
C2_Witness ==
  /\ Returns
  /\ Range(original_files) = {<<"2", ".", "p">>, <<".", "a">>, <<"5", ".", "d", "/", "x">>}
  /\ renamed_zip.entries[1].filename = <<"p", ".", "p">>
  /\ \A i \in DOMAIN new_names_list :
       Trimmed(new_names_list[i].val) # new_names_list[i].val

\* C3: after the sort step original_files holds the non-directory identifiers
\* ordered by the integer their base name parses to, ascending, every
\* identifier whose base name is no integer after every one whose base name is.
C3_NumericOrder ==
  (invoked /\ uploaded_zip.valid) =>
    /\ Len(original_files) = Cardinality(FileIdx)
    /\ \A k \in FileIdx :
         Cardinality({i \in DOMAIN original_files :
                        original_files[i] = uploaded_zip.entries[k].filename})
           = Cardinality({j \in FileIdx : uploaded_zip.entries[j].filename
                                            = uploaded_zip.entries[k].filename})
    /\ \A i, j \in DOMAIN original_files :
         i < j => ~KeyBefore(original_files[j], original_files[i])

\* entries 10, .a, 2 (in that order) come out as 2, 10, .a
C3_Witness ==
  /\ invoked
  /\ namelist(uploaded_zip) = << <<"1", "0">>, <<".", "a">>, <<"2">> >>
  /\ original_files = << <<"2">>, <<"1", "0">>, <<".", "a">> >>

\* C4: with a number of names other than the number of non-directory entries
\* the call returns None, issues the one count-mismatch error naming both
\* counts, and opens and writes no entry.
C4_CountMismatch ==
  (invoked /\ uploaded_zip.valid /\ ~CountsMatch) =>
    /\ renamed_zip = None
    /\ messages = <<ErrMismatch(Len(new_names_list), Cardinality(FileIdx))>>
    /\ reads = <<>>
    /\ output_buffer = <<>>

\* two file entries, one name
C4_Witness ==
  /\ invoked /\ uploaded_zip.valid
  /\ Cardinality(FileIdx) = 2 /\ Len(new_names_list) = 1 /\ AllStr
  /\ renamed_zip = None

\* C5: a call fails exactly when it issues an error, it then returns None and
\* issues exactly one error, as its last message, whatever was written to the
\* output buffer before; a file that is no archive, an entry that cannot be
\* read and a name that is no string where the loop reaches it are failures.
C5_FailureAborts ==
  invoked =>
    /\ renamed_zip.some <=> Errors = {}
    /\ ~renamed_zip.some => Errors = {Len(messages)}
    /\ ~uploaded_zip.valid => ~renamed_zip.some
    /\ (uploaded_zip.bad # 0 /\ uploaded_zip.bad \in Range(reads)) => ~renamed_zip.some
    /\ (uploaded_zip.valid /\ CountsMatch /\ ~AllStr) => ~renamed_zip.some

\* a fault after an entry was written: the buffer holds it, nothing is returned
C5_Witness ==
  /\ invoked /\ uploaded_zip.valid /\ CountsMatch
  /\ output_buffer # <<>>
  /\ renamed_zip = None
  /\ Cardinality(Successes) = Len(output_buffer)

\* C6: a directory entry is not counted against the number of names, is never
\* opened, and neither its identifier nor its content reaches the output.
C6_DirectoriesExcluded ==
  (invoked /\ uploaded_zip.valid) =>
    /\ (\E i \in Errors : messages[i].what = "mismatch") <=> ~CountsMatch
    /\ \A i \in DOMAIN original_files :
         original_files[i][Len(original_files[i])] # "/"
    /\ \A k \in DirIdx :
         /\ k \notin Range(reads)
         /\ \A i \in DOMAIN output_buffer :
              output_buffer[i].content # uploaded_zip.entries[k].content

\* an archive of a directory between two files, renamed with two names
C6_Witness ==
  /\ Returns
  /\ DirIdx = {2} /\ FileIdx = {1, 3}
  /\ Len(renamed_zip.entries) = 2

\* C7: the sort is stable: the identifiers of one sort key are in
\* original_files in the order they have in the archive.
C7_StableSort ==
  (invoked /\ uploaded_zip.valid) =>
    \A k \in FileIdx :
      LET f == uploaded_zip.entries[k].filename
          Tied(x) == SameKey(x, f)
      IN  SelectSeq(original_files, Tied) = SelectSeq(FilterFiles(namelist(uploaded_zip)), Tied)

\* 5.d/x before .a (both without a number) and 2.p before 2 (both 2) keep
\* their order while the sort moves the numbered ones to the front
C7_Witness ==
  /\ invoked
  /\ \/ /\ namelist(uploaded_zip) = << <<"5", ".", "d", "/", "x">>, <<".", "a">>, <<"2">> >>
        /\ original_files = << <<"2">>, <<"5", ".", "d", "/", "x">>, <<".", "a">> >>
     \/ /\ namelist(uploaded_zip) = << <<"1", "0">>, <<"2", ".", "p">>, <<"2">> >>
        /\ original_files = << <<"2", ".", "p">>, <<"2">>, <<"1", "0">> >>

C9_PastedNames ==
  name_input_method = "paste" =>
    LET t == new_names_input
        NL == {i \in 1..Len(t) : t[i] = "\n"}
        nLines == Cardinality(NL) + 1
        Nth(S, k) == CHOOSE q \in S : Cardinality({r \in S : r < q}) = k - 1
        From(k) == IF k = 1 THEN 1 ELSE Nth(NL, k - 1) + 1
        To(k) == IF k = nLines THEN Len(t) ELSE Nth(NL, k) - 1
        Ink(k) == {i \in From(k)..To(k) : t[i] \notin Whitespace}
        Kept == {k \in 1..nLines : Ink(k) # {}}
    IN  /\ Len(new_names_list) = Cardinality(Kept)
        /\ \A j \in DOMAIN new_names_list :
             /\ new_names_list[j].type = "str"
             /\ new_names_list[j].val =
                  SubSeq(t, Nth(Ink(Nth(Kept, j)), 1),
                            Nth(Ink(Nth(Kept, j)), Cardinality(Ink(Nth(Kept, j)))))
             /\ new_names_list[j].val # <<>>
             /\ Head(new_names_list[j].val) \notin Whitespace
             /\ new_names_list[j].val[Len(new_names_list[j].val)] \notin Whitespace

\* an empty line dropped and a line trimmed: "\n a\na" gives a, a
C9_Witness ==
  /\ new_names_input = <<"\n", " ", "a", "\n", "a">>
  /\ new_names_list = <<Str(<<"a">>), Str(<<"a">>)>>

\* C10: the renamer is called only in a run started by the button with an
\* archive uploaded and a name sequence that is not empty; a press with an
\* empty name sequence calls nothing, ends with the warning and offers no
\* download; a download is offered only when the call returned an archive.
C10_GuardedInvocation ==
  /\ invoked => (button /\ uploaded_zip.present /\ new_names_list # <<>>)
  /\ (button /\ new_names_list = <<>>) =>
       (~invoked /\ messages = <<Warning>> /\ ~download /\ renamed_zip = None)
  /\ download => (invoked /\ renamed_zip.some)

\* the button pressed with an archive of no file entry and no name
C10_Witness ==
  /\ button
  /\ uploaded_zip.present /\ uploaded_zip.valid /\ FileIdx = {}
  /\ new_names_list = <<>>
  /\ messages = <<Warning>>

====
